---- MODULE Spec2Model ----
(***************************************************************************)
(* Model of ramjet's LightcurveLabelPerTimeStepDatabase segment extraction *)
(* (lightcurve_label_per_time_step_database.py): round_to_base,            *)
(* valid_start_indexes_for_segment_including_positive and                  *)
(* make_uniform_length_requiring_positive.  Arrays are sequences indexed   *)
(* from 1; start indexes, as in numpy, count from 0.                       *)
(***************************************************************************)
EXTENDS Integers, Sequences, FiniteSets, TLC

\* ---------------------------------------------------------------- bounds
MaxSteps == 3        \* longest example / label (time steps)
MaxFeatures == 3     \* widest example (feature columns)
MaxLength == 5       \* largest requested length / segment_length
MaxBase == 4         \* bases range over -MaxBase .. MaxBase
MaxNumber == 9       \* largest number handed to round_to_base directly

\* An optional argument: <<>> is Python's None, <<v>> is the value v.
None == <<>>

Some(v) == <<v>>

FluxValues == {0, 1}

LabelValues == {0, 1}

Min(a, b) == IF a < b THEN a ELSE b

Max(a, b) == IF a > b THEN a ELSE b

Abs(a) == IF a < 0 THEN 0 - a ELSE a

\* ------------------------------------------------------- python built-ins
\* round(num / den) for integers num, den with den # 0: true division,
\* then rounding to the nearest integer with halves going to the even one.
PyRoundHalfUp(num, den) ==
  LET n == IF den < 0 THEN 0 - num ELSE num
      d == Abs(den)
      q == n \div d
      r == n - q * d
  IN  IF 2 * r < d THEN q ELSE q + 1

PyRound(num, den) ==
  LET n == IF den < 0 THEN 0 - num ELSE num
      d == Abs(den)
      q == n \div d
      r == n - q * d
  IN  IF 2 * r < d THEN q
      ELSE IF 2 * r > d THEN q + 1
      ELSE IF q % 2 = 0 THEN q ELSE q + 1

\* seq[start:stop] for 0 <= start, 0 <= stop (numpy clamps to the array).
PySlice(seq, start, stop) ==
  SubSeq(seq, start + 1, Min(stop, Len(seq)))

\* seq[:stop] for any integer stop: a negative stop counts from the end.
PySliceTo(seq, stop) ==
  IF stop >= 0 THEN SubSeq(seq, 1, Min(stop, Len(seq)))
  ELSE SubSeq(seq, 1, Max(Len(seq) + stop, 0))

\* label.astype(np.bool): every non-zero value is True.
AsBool(label) == [i \in 1..Len(label) |-> label[i] # 0]

\* any(label): some element is truthy.
AnyTruthy(label) == \E i \in 1..Len(label) : label[i] # 0

\* np.roll(boolean_array, -1): element i comes from position i + 1, circularly.
Roll(boolean_array) ==
  [i \in 1..Len(boolean_array) |->
     boolean_array[(i % Len(boolean_array)) + 1]]

\* np.where(boolean_array)[0]: the 0-based positions holding True, increasing.
RECURSIVE WhereFrom(_, _)
WhereFrom(boolean_array, i) ==
  IF i > Len(boolean_array) THEN <<>>
  ELSE IF boolean_array[i]
       THEN <<i - 1>> \o WhereFrom(boolean_array, i + 1)
       ELSE WhereFrom(boolean_array, i + 1)

Where(boolean_array) == WhereFrom(boolean_array, 1)

\* ----------------------------------------------------------- round_to_base
round_to_base(number, base) == base * PyRound(number, base)

\* The call as the caller sees it: division by a zero base raises.
RoundToBaseCall(number, base) ==
  IF base = 0
  THEN [outcome |-> "ZeroDivisionError", value |-> 0]
  ELSE [outcome |-> "return", value |-> round_to_base(number, base)]

\* ------------------------- valid_start_indexes_for_segment_including_positive
\* The loop of lines 102-103: segment_length - 1 rounds of OR with the roll.
RECURSIVE ExpandOr(_, _)
ExpandOr(boolean_array, rounds) ==
  IF rounds <= 0 THEN boolean_array
  ELSE ExpandOr([i \in 1..Len(boolean_array) |->
                   boolean_array[i] \/ Roll(boolean_array)[i]], rounds - 1)

\* Line 104: the assertion on the array's length.
LongEnoughUnchecked(boolean_array, segment_length) == TRUE

LongEnough(boolean_array, segment_length) ==
  Len(boolean_array) >= segment_length

valid_start_indexes_for_segment_including_positive(boolean_array, segment_length) ==
  LET expanded == ExpandOr(boolean_array, segment_length - 1)
  IN  IF ~LongEnough(expanded, segment_length)
      THEN [outcome |-> "AssertionError", indexes |-> <<>>]
      ELSE [outcome |-> "return",
            indexes |-> Where(PySliceTo(expanded, 0 - (segment_length - 1)))]

\* -------------------------------------------------------- make_uniform_length
\* The inherited generic pass: unchanged, leading crop, or end-to-end tiling.
make_uniform_length(sequence, length) ==
  IF Len(sequence) = length THEN sequence
  ELSE IF Len(sequence) > length THEN SubSeq(sequence, 1, length)
  ELSE [i \in 1..length |-> sequence[((i - 1) % Len(sequence)) + 1]]

\* --------------------------------------- make_uniform_length_requiring_positive
Raise(kind, path, length) ==
  [outcome |-> kind, example |-> <<>>, label |-> <<>>, path |-> path,
   start_index |-> None, length |-> length]

Return(example, label, path, start_index, length) ==
  [outcome |-> "return", example |-> example, label |-> label, path |-> path,
   start_index |-> start_index, length |-> length]

\* np.concatenate([example, np.expand_dims(label, axis=-1)], axis=1):
\* the label becomes one more trailing column of every row.
Concatenate(example, label) ==
  [i \in 1..Len(example) |-> Append(example[i], label[i])]

\* The number of leading columns kept by example_and_label[:, :2].
ExampleColumns(feature_count) == Min(2, feature_count + 1)

\* The 1-based position of the column read by example_and_label[:, 2].
LabelColumn(feature_count) == 3

\* Lines 87-90: concatenate, make uniform, split.
ConcatenateAndSplit(example, label, feature_count, length, path, start_index) ==
  IF Len(example) # Len(label)
  THEN Raise("ValueError", path, length)
  ELSE LET example_and_label ==
             make_uniform_length(Concatenate(example, label), length)
       IN  IF LabelColumn(feature_count) > feature_count + 1
           THEN Raise("IndexError", path, length)
           ELSE Return(
             [i \in 1..Len(example_and_label) |->
                SubSeq(example_and_label[i], 1, ExampleColumns(feature_count))],
             [i \in 1..Len(example_and_label) |->
                example_and_label[i][LabelColumn(feature_count)]],
             path, start_index, length)

\* Line 79: the fast path is taken when the length already matches.
IsNoOpNever(length, label) == FALSE

IsNoOp(length, label) == length = Len(label)

\* Lines 79-90 for a length that is already defaulted and rounded: the set of
\* results the call can produce, one per start index np.random.choice can pick.
ExtractResults(example, label, feature_count, length) ==
  IF IsNoOp(length, label)
  THEN {Return(example, label, "noop", None, length)}
  ELSE IF Len(label) > length /\ AnyTruthy(label)
  THEN LET valid_start_indexes ==
             valid_start_indexes_for_segment_including_positive(
               AsBool(label), length)
       IN  IF valid_start_indexes.outcome # "return"
           THEN {Raise(valid_start_indexes.outcome, "positive", length)}
           ELSE IF valid_start_indexes.indexes = <<>>
           THEN {Raise("ValueError", "positive", length)}
           ELSE {ConcatenateAndSplit(
                   PySlice(example, start_index, start_index + length),
                   PySlice(label, start_index, start_index + length),
                   feature_count, length, "positive", Some(start_index)) :
                 start_index \in {valid_start_indexes.indexes[k] :
                                    k \in 1..Len(valid_start_indexes.indexes)}}
  ELSE {ConcatenateAndSplit(example, label, feature_count, length,
                            "generic", None)}

\* Lines 75-78: default the length, then round it to the base.
make_uniform_length_requiring_positive(example, label, feature_count, length, required_length_multiple_base) ==
  LET length1 == IF length = None THEN Len(label) ELSE length[1]
  IN  IF required_length_multiple_base = None
      THEN ExtractResults(example, label, feature_count, length1)
      ELSE LET rounded == RoundToBaseCall(length1,
                                          required_length_multiple_base[1])
           IN  IF rounded.outcome # "return"
               THEN {Raise(rounded.outcome, "round", length1)}
               ELSE ExtractResults(example, label, feature_count,
                                   rounded.value)

\* ===================================================================== state
VARIABLES
  op,                \* which function is being called
  pc,                \* "start" before the call, "done" after it
  example,           \* (time_steps, feature_count) array: a sequence of rows
  feature_count,     \* example.shape[1]
  label,             \* per-time-step label values
  length,            \* optional requested length
  required_length_multiple_base,  \* optional base
  number, base,      \* arguments of a direct round_to_base call
  boolean_array, segment_length,  \* arguments of a direct index-finder call
  result             \* what the call produced

vars == <<op, pc, example, feature_count, label, length,
          required_length_multiple_base, number, base, boolean_array,
          segment_length, result>>

NoResult == [outcome |-> "none"]

\* A row of feature_count columns built from one flux value per time step.
Row(flux, f) == [c \in 1..f |-> (flux + c - 1) % Cardinality(FluxValues)]

Rows(fluxes, f) == [i \in 1..Len(fluxes) |-> Row(fluxes[i], f)]

SeqsUpTo(S, lo, hi) == UNION {[1..n -> S] : n \in lo..hi}

OptionalLengths == {None} \cup {Some(v) : v \in 1..MaxLength}

OptionalBases == {None} \cup {Some(v) : v \in (0 - MaxBase)..MaxBase}

InitMakeUniform ==
  /\ op = "make_uniform_length_requiring_positive"
  /\ feature_count \in 1..MaxFeatures
  /\ \E fluxes \in SeqsUpTo(FluxValues, 1, MaxSteps) :
        example = Rows(fluxes, feature_count)
  /\ label \in SeqsUpTo(LabelValues, 1, MaxSteps)
  /\ length \in OptionalLengths
  /\ required_length_multiple_base \in OptionalBases
  /\ number = 0 /\ base = 1
  /\ boolean_array = <<>> /\ segment_length = 0

InitRoundToBase ==
  /\ op = "round_to_base"
  /\ number \in 0..MaxNumber
  /\ base \in (0 - MaxBase)..MaxBase
  /\ example = <<>> /\ feature_count = 1 /\ label = <<>>
  /\ length = None /\ required_length_multiple_base = None
  /\ boolean_array = <<>> /\ segment_length = 0

InitValidStartIndexes ==
  /\ op = "valid_start_indexes_for_segment_including_positive"
  /\ boolean_array \in SeqsUpTo(BOOLEAN, 1, MaxSteps + 1)
  /\ segment_length \in 1..MaxLength
  /\ example = <<>> /\ feature_count = 1 /\ label = <<>>
  /\ length = None /\ required_length_multiple_base = None
  /\ number = 0 /\ base = 1

\* __init__ (line 19): the base evaluation and training round lengths to.
length_multiple_base == 32

\* evaluation_preprocessing: the pair general_preprocessing loaded, passed on
\* with no length and with the configured base.
InitEvaluationPreprocessing ==
  /\ op = "evaluation_preprocessing"
  /\ feature_count \in 1..MaxFeatures
  /\ \E fluxes \in SeqsUpTo(FluxValues, 1, MaxSteps) :
        /\ example = Rows(fluxes, feature_count)
        /\ label \in [1..Len(fluxes) -> LabelValues]
  /\ length = None
  /\ required_length_multiple_base = Some(length_multiple_base)
  /\ number = 0 /\ base = 1
  /\ boolean_array = <<>> /\ segment_length = 0

Init ==
  /\ pc = "start"
  /\ result = NoResult
  /\ \/ InitRoundToBase
     \/ InitValidStartIndexes
     \/ InitMakeUniform
     \/ InitEvaluationPreprocessing

Inputs == <<op, example, feature_count, label, length,
            required_length_multiple_base, number, base, boolean_array,
            segment_length>>

MakeUniformLengthRequiringPositive ==
  /\ pc = "start"
  /\ op = "make_uniform_length_requiring_positive"
  /\ result' \in make_uniform_length_requiring_positive(
                   example, label, feature_count, length,
                   required_length_multiple_base)
  /\ pc' = "done"
  /\ UNCHANGED Inputs

RoundToBase ==
  /\ pc = "start"
  /\ op = "round_to_base"
  /\ result' = RoundToBaseCall(number, base)
  /\ pc' = "done"
  /\ UNCHANGED Inputs

ValidStartIndexes ==
  /\ pc = "start"
  /\ op = "valid_start_indexes_for_segment_including_positive"
  /\ result' = valid_start_indexes_for_segment_including_positive(
                 boolean_array, segment_length)
  /\ pc' = "done"
  /\ UNCHANGED Inputs

\* Lines 43-48: the loaded pair is made uniform with the default length and
\* the configured base; the tensor conversion keeps values and shapes.
EvaluationPreprocessing ==
  /\ pc = "start"
  /\ op = "evaluation_preprocessing"
  /\ result' \in make_uniform_length_requiring_positive(
                   example, label, feature_count, None,
                   Some(length_multiple_base))
  /\ pc' = "done"
  /\ UNCHANGED Inputs

Next ==
  \/ MakeUniformLengthRequiringPositive
  \/ RoundToBase
  \/ ValidStartIndexes
  \/ EvaluationPreprocessing

Spec == Init /\ [][Next]_vars

\* ==================================================================== claims
MakeDone == pc = "done" /\ op = "make_uniform_length_requiring_positive"

RoundDone == pc = "done" /\ op = "round_to_base"

ValidStartDone ==
  pc = "done" /\ op = "valid_start_indexes_for_segment_including_positive"

BaseGiven == required_length_multiple_base # None

\* A valid input: example and label of equal leading length, a positive base
\* when one is given (lengths are drawn from 1..MaxLength, arrays are non-empty).
ValidInput ==
  /\ Len(example) = Len(label)
  /\ BaseGiven => required_length_multiple_base[1] >= 1

\* The normalized target length: the requested length, defaulting to
\* len(label), rounded to the base when one is given (the base is not 0).
TargetLength ==
  LET requested == IF length = None THEN Len(label) ELSE length[1]
  IN  IF BaseGiven
      THEN round_to_base(requested, required_length_multiple_base[1])
      ELSE requested

Elements(seq) == {seq[k] : k \in 1..Len(seq)}

\* An example of two feature columns, the layout the split of line 89 is
\* written for.
TwoColumns == feature_count = 2

\* C1: for every valid input the call returns an example segment and a label
\* segment that both have exactly the normalized target length (stated here
\* for two-column examples, where the split of line 89 cannot be the cause).
C1_LengthInvariant ==
  (MakeDone /\ ValidInput /\ TwoColumns) =>
    /\ result.outcome = "return"
    /\ Len(result.example) = TargetLength
    /\ Len(result.label) = TargetLength

\* C2: when the label has a positive value and is longer than the normalized
\* length, the returned label segment contains a positive value, whatever
\* start index was chosen (stated here for two-column examples).
C2_PositiveCoverage ==
  (MakeDone /\ ValidInput /\ TwoColumns /\ AnyTruthy(label)
     /\ Len(label) > TargetLength /\ result.outcome = "return") =>
    AnyTruthy(result.label)

\* The start offsets s in [0, n - segment_length] whose window holds a True.
WindowStarts(labels, window) ==
  {s \in 0..(Len(labels) - window) :
     \E j \in (s + 1)..(s + window) : labels[j]}

Increasing(seq) == \A k \in 1..(Len(seq) - 1) : seq[k] < seq[k + 1]

BoundaryLabels == <<FALSE, FALSE, FALSE, TRUE, FALSE, FALSE, FALSE>>

\* C3: for 1 <= segment_length <= n the index finder returns, in increasing
\* order, exactly the start offsets in [0, n - segment_length] whose window
\* contains a True; the boundary scenario gives {1, 2, 3}.
C3_ExactValidStarts ==
  /\ (ValidStartDone /\ segment_length >= 1
        /\ segment_length <= Len(boolean_array)) =>
       /\ result.outcome = "return"
       /\ Increasing(result.indexes)
       /\ Elements(result.indexes) = WindowStarts(boolean_array, segment_length)
  /\ valid_start_indexes_for_segment_including_positive(BoundaryLabels, 3)
       = [outcome |-> "return", indexes |-> <<1, 2, 3>>]

\* C4: every returned time step is one input time step: its example row is
\* that input row and its label is that row's label.
C4_Alignment ==
  (MakeDone /\ ValidInput /\ result.outcome = "return") =>
    /\ Len(result.example) = Len(result.label)
    /\ \A i \in 1..Len(result.label) :
         \E j \in 1..Len(label) :
           /\ result.example[i] = example[j]
           /\ result.label[i] = label[j]

\* C5: when the normalized length equals len(label) the call returns the input
\* example and label unchanged, on the fast path, without sampling a start.
C5_NoOpIdentity ==
  (MakeDone /\ (BaseGiven => required_length_multiple_base[1] # 0)
     /\ TargetLength = Len(label)) =>
    /\ result.outcome = "return"
    /\ result.example = example
    /\ result.label = label
    /\ result.path = "noop"
    /\ result.start_index = None

\* A call whose rounding turned a different requested length into len(label).
C5_Witness ==
  /\ MakeDone /\ BaseGiven /\ length # None
  /\ required_length_multiple_base[1] # 0
  /\ length[1] # Len(label)
  /\ TargetLength = Len(label)
  /\ feature_count # 2
  /\ result.outcome = "return" /\ result.label = label

\* C6: for number >= 0 and base >= 1 round_to_base returns the multiple of
\* base nearest to number, an exact tie going to the even quotient; the four
\* documented values hold.
C6_RoundsToNearestMultiple ==
  /\ (RoundDone /\ base >= 1) =>
       /\ result.outcome = "return"
       /\ result.value % base = 0
       /\ 2 * Abs(result.value - number) <= base
       /\ (2 * Abs(result.value - number) = base) =>
            (result.value \div base) % 2 = 0
  /\ round_to_base(100, 32) = 96
  /\ round_to_base(110, 32) = 96
  /\ round_to_base(112, 32) = 128
  /\ round_to_base(96, 32) = 96

\* A tie that was rounded down to the even quotient.
C6_Witness ==
  /\ RoundDone /\ base >= 1 /\ result.outcome = "return"
  /\ 2 * Abs(result.value - number) = base
  /\ result.value < number

\* C7: for any feature_count the extraction succeeds on the generic path, and
\* a returned example segment has feature_count columns while the returned
\* label values are values of the label column.
C7_FeatureDimensionality ==
  (MakeDone /\ ValidInput) =>
    /\ result.path = "generic" => result.outcome = "return"
    /\ result.outcome = "return" =>
         /\ \A i \in 1..Len(result.example) :
              Len(result.example[i]) = feature_count
         /\ Elements(result.label) \subseteq Elements(label)

\* C8: when len(label) < normalized length L the output is the input repeated
\* end-to-end and truncated to L.
C8_Repetition ==
  (MakeDone /\ ValidInput /\ Len(label) < TargetLength) =>
    /\ result.outcome = "return"
    /\ Len(result.example) = TargetLength
    /\ Len(result.label) = TargetLength
    /\ \A i \in 1..TargetLength :
         /\ result.example[i] = example[((i - 1) % Len(label)) + 1]
         /\ result.label[i] = label[((i - 1) % Len(label)) + 1]

\* C9: for every base <= 0 round_to_base, and the extraction given that base,
\* fails with InvalidConfiguration and returns nothing (the extraction stated
\* for two-column examples).
C9_NonPositiveBaseRejected ==
  /\ (RoundDone /\ base <= 0) => result.outcome = "InvalidConfiguration"
  /\ (MakeDone /\ TwoColumns /\ BaseGiven
        /\ required_length_multiple_base[1] <= 0) =>
       result.outcome = "InvalidConfiguration"

\* The error kinds that are ValueError or a subclass of it.
ValueErrorClass == {"ValueError", "InvalidSegmentLength"}

ShapeMismatchErrors == {"ShapeMismatch", "ValueError"}

\* C11: whenever the example's leading length differs from the label's, the
\* call fails with a shape-mismatch error on every path and never returns a
\* pair (stated for two-column examples and a base other than 0, and counting
\* numpy's own ValueError as such an error).
C11_ShapeMismatchRaised ==
  (MakeDone /\ TwoColumns /\ Len(example) # Len(label)
     /\ (BaseGiven => required_length_multiple_base[1] >= 1)) =>
    result.outcome \in ShapeMismatchErrors

\* The results the call can produce for the arguments of this state.
PossibleResults ==
  make_uniform_length_requiring_positive(
    example, label, feature_count, length, required_length_multiple_base)

\* The index set the finder returns for the label and the normalized length.
ValidStarts ==
  valid_start_indexes_for_segment_including_positive(
    AsBool(label), TargetLength).indexes

\* The positive-aware path applies: a positive label longer than the target.
PositiveCase ==
  MakeDone /\ ValidInput /\ AnyTruthy(label) /\ Len(label) > TargetLength

\* An example of more columns than the two the split of line 89 keeps.
WideExample == feature_count > 2

\* C12: on the positive-aware path every valid start index is a possible
\* outcome and no other index is, and for the chosen start s the result is
\* example[s : s+length] and label[s : s+length] (stated here for examples
\* of three or more columns, where the split of line 89 does not raise).
C12_StartsAreTheValidStarts ==
  (PositiveCase /\ WideExample) =>
    /\ \A s \in Elements(ValidStarts) :
         \E r \in PossibleResults :
           r.outcome = "return" /\ r.start_index = Some(s)
    /\ result.outcome = "return" =>
         \E s \in Elements(ValidStarts) :
           /\ result.start_index = Some(s)
           /\ result.example = PySlice(example, s, s + TargetLength)
           /\ result.label = PySlice(label, s, s + TargetLength)

\* C13: with no positive label and a normalized length below len(label) the
\* positive-aware path is not entered, the call has one possible result, and
\* that result is the first `length` time steps of example and label (stated
\* here for examples of three or more columns).
C13_DeterministicLeadingCrop ==
  (MakeDone /\ ValidInput /\ WideExample /\ ~AnyTruthy(label)
     /\ TargetLength < Len(label)) =>
    /\ result.path = "generic"
    /\ result.start_index = None
    /\ Cardinality(PossibleResults) = 1
    /\ result.outcome = "return"
    /\ result.example = SubSeq(example, 1, TargetLength)
    /\ result.label = SubSeq(label, 1, TargetLength)

\* C14: on the positive-aware path with a normalized length >= 1 the valid
\* start index set is non-empty, so the random choice never fails.
C14_ValidStartsNonEmpty ==
  (PositiveCase /\ TargetLength >= 1) =>
    /\ ValidStarts # <<>>
    /\ ~(result.path = "positive" /\ result.outcome = "ValueError")

EvaluationDone == pc = "done" /\ op = "evaluation_preprocessing"

\* C15: for a requested (or defaulted) length >= 1 and a base >= 1 the
\* normalized length used for the extraction is a multiple of the base that
\* is >= 1, and a returned segment is never empty (stated here for
\* two-column examples).
C15_NormalizedLengthPositive ==
  ((MakeDone \/ EvaluationDone) /\ ValidInput /\ TwoColumns /\ BaseGiven) =>
    /\ result.length % required_length_multiple_base[1] = 0
    /\ result.length >= 1
    /\ result.outcome = "return" =>
         Len(result.example) >= 1 /\ Len(result.label) >= 1

====
